---- MODULE Spec2Model ----
(***************************************************************************)
(* A state-machine model of iot-toolbox:                                   *)
(*   - SerialTool (src/src/serial/app.rs): the foreground handlers         *)
(*     connect / disconnect / send / ui and the reader threads spawned by  *)
(*     start_read_thread;                                                  *)
(*   - ModbusTool (src/src/modbus/app.rs): ui, start_read_once,            *)
(*     handle_auto_poll, start_auto_poll and the tasks they spawn.         *)
(* Time is counted in milliseconds.  A reader thread's clock advances only *)
(* where the code waits: inside the blocking port.read and inside          *)
(* thread::sleep.                                                          *)
(***************************************************************************)
EXTENDS Integers, Sequences, FiniteSets, TLC

(***************************************************************************)
(* Bounds of the model.                                                    *)
(***************************************************************************)
\* successful connect() calls, hence reader threads ever spawned
MaxThreads == 2
\* groups of bytes the device puts on the wire of one connection
MaxGroups == 2
\* log entries the foreground handlers may push (drained frames come on top)
MaxLogs == 3
\* tasks a ModbusTool ever spawns (poll loops and one-shot reads)
MaxTasks == 3
\* requests the Modbus device answers; it may fail any request
MaxAnswers == 2
\* words handed to a decoder
MaxRaw == 3
\* items in a device response
MaxResp == 2
\* registers of a displayed request
MaxQty == 3

(***************************************************************************)
(* Program constants.                                                      *)
(***************************************************************************)
\* let frame_timeout = Duration::from_millis(30)
FrameTimeout == 30
\* .timeout(Duration::from_millis(100))
ReadTimeout == 100
\* thread::sleep(Duration::from_millis(2))
SleepMs == 2
\* let mut buf = [0u8; 256]
BufLen == 256

\* Option::None of SerialTool.port and SerialTool.rx
None == 0

Threads == 1..MaxThreads

\* silent gaps (ms) the device may leave before a group of bytes
Gaps == {10, 50, 120}

\* serial devices of the machine (serialport::available_ports)
PortNames == {"COM1", "COM2"}

\* the placeholder "Refresh Ports" stores in selected_port
Placeholder == "Select Port"

VARIABLES
  \* ---- SerialTool fields
  selected_port,  \* "" (None) or a port name
  port,           \* None or the connection the tool holds (Arc<Mutex<port>>)
  rx,             \* None or the connection whose channel the tool receives on
  read_running,   \* the one AtomicBool every reader thread shares
  status,
  logs,
  send_format,
  \* ---- the foreground thread
  fg,             \* where the foreground is: in ui(), at the top of send()
                  \* with the text typed, or in port.lock() of send() ("turn"
                  \* once the reader ended a read meanwhile)
  \* ---- the channel whose Receiver is self.rx
  queue,
  \* ---- per connection / reader thread
  dev,            \* the device the connection was opened on
  lock,           \* the Mutex around the port: "free" or its holder
  tpc,            \* the reader thread's position
  frame,          \* its accumulation buffer
  nread,          \* the bytes its last port.read returned (buf[..n])
  elapsed,        \* last_recv.elapsed(), saturated at FrameTimeout
  wire,           \* groups still to arrive: <<[gap, bytes], ...>>
  osbuf,          \* bytes received by the OS and not yet read
  \* ---- history (not program state)
  sched,          \* the groups the device sends on the connection
  sent,           \* every tx.send the thread made: [bytes, by]
  why,            \* how the thread left its loop: "", "cancel" or "error"
  cancelled,      \* a disconnect() found the thread alive
  written         \* number of successful port.write_all calls

VARIABLES
  \* ---- ModbusTool fields
  auto_poll,
  mrx,            \* ModbusTool.rx: None or the task whose channel it receives on
  data,
  tcp_ip,
  \* ---- the foreground thread inside ModbusTool::ui
  mui,            \* "widgets": before the panels; "drain": before app.rs 131
  \* ---- the channel whose Receiver is ModbusTool.rx
  mqueue,
  \* ---- per spawned task
  kind,           \* "none", "poll" (start_auto_poll) or "once" (start_read_once)
  mpc,            \* the task's position
  req,            \* the parameters the task captured
  \* ---- history (not program state)
  outcome,        \* the task's last cycle: "", "sent", "lost" or "failed"
  stopped,        \* the stop branch of handle_auto_poll ran with the loop alive
  startedIdle,    \* the one-shot read was started with no session running
  napplied,       \* blocks of the task the consumer applied to data
  answers         \* requests the device answered

VARIABLES
  \* ---- one call of a pure function of the Modbus side
  call,           \* the function applied ("none" before the call) and its inputs
  ret             \* what the call returned

cvars == <<call, ret>>

mvars == <<auto_poll, mrx, data, tcp_ip, mui, mqueue, kind, mpc, req, outcome,
           stopped, startedIdle, napplied, answers>>

vars == <<mvars, cvars, selected_port, port, rx, read_running, status, logs,
          send_format, fg, queue, dev, lock, tpc, frame, nread, elapsed, wire,
          osbuf, sched, sent, why, cancelled, written>>

svars == <<selected_port, port, rx, read_running, status, logs, send_format,
           fg, queue, dev, lock, tpc, frame, nread, elapsed, wire, osbuf,
           sched, sent, why, cancelled, written>>

(***************************************************************************)
(* Helpers.                                                                *)
(***************************************************************************)
Take(s, k) == SubSeq(s, 1, IF Len(s) < k THEN Len(s) ELSE k)

Drop(s, k) == SubSeq(s, (IF Len(s) < k THEN Len(s) ELSE k) + 1, Len(s))

\* Instant arithmetic, kept finite: elapsed times are only compared with
\* FrameTimeout
Sat(x) == IF x > FrameTimeout THEN FrameTimeout ELSE x

\* the wire after d ms, and the bytes that arrived meanwhile
RECURSIVE Pass(_, _)
Pass(w, d) ==
  IF w = <<>> THEN [wire |-> <<>>, arrived |-> <<>>]
  ELSE IF Head(w).gap > d
    THEN [wire |-> <<[Head(w) EXCEPT !.gap = @ - d]>> \o Tail(w),
          arrived |-> <<>>]
  ELSE LET r == Pass(Tail(w), d - Head(w).gap)
       IN [wire |-> r.wire, arrived |-> Head(w).bytes \o r.arrived]

\* what a device may send on connection t: up to MaxGroups groups, group i
\* being the byte 16*t + i
Schedules(t) ==
  UNION {{[i \in 1..k |-> [gap |-> g[i], bytes |-> <<16 * t + i>>]] :
             g \in [1..k -> Gaps]} : k \in 0..MaxGroups}

\* SerialSpec's devices: silent, or one group after the shortest gap
Bursts(t) == {w \in Schedules(t) : Len(w) <= 1 /\ \A i \in 1..Len(w) : w[i].gap = 10}

Alive(t) == tpc[t] \notin {"none", "done"}

\* the device is open: some clone of the Arc around its handle still exists
Busy(d) == \E t \in Threads : dev[t] = d /\ (Alive(t) \/ port = t)

(***************************************************************************)
(* serial/utils.rs                                                         *)
(***************************************************************************)
HexDigits == {"0", "1", "2", "3", "4", "5", "6", "7", "8", "9",
              "a", "b", "c", "d", "e", "f", "A", "B", "C", "D", "E", "F"}

HexVal(c) ==
  CASE c = "0" -> 0 [] c = "1" -> 1 [] c = "2" -> 2 [] c = "3" -> 3
    [] c = "4" -> 4 [] c = "5" -> 5 [] c = "6" -> 6 [] c = "7" -> 7
    [] c = "8" -> 8 [] c = "9" -> 9
    [] c \in {"a", "A"} -> 10 [] c \in {"b", "B"} -> 11
    [] c \in {"c", "C"} -> 12 [] c \in {"d", "D"} -> 13
    [] c \in {"e", "E"} -> 14 [] c \in {"f", "F"} -> 15

\* the characters the model types into input_text, with their byte values
Ord(c) ==
  CASE c = " " -> 32 [] c = "1" -> 49 [] c = "4" -> 52 [] c = "F" -> 70

\* input.chars().filter(|c| c.is_ascii_hexdigit()).collect()
cleaned(input) == SelectSeq(input, LAMBDA c : c \in HexDigits)

\* a parser that drops a trailing unpaired digit instead of failing
ParseHexPadded(input) ==
  LET cl == cleaned(input)
  IN [ok |-> TRUE,
      bytes |-> [i \in 1..(Len(cl) \div 2) |->
                   16 * HexVal(cl[2 * i - 1]) + HexVal(cl[2 * i])]]

\* parse_hex_string: [ok, bytes]
parse_hex_string(input) ==
  LET cl == cleaned(input)
  IN IF Len(cl) % 2 # 0
       THEN [ok |-> FALSE, bytes |-> <<>>]
       ELSE [ok |-> TRUE,
             bytes |-> [i \in 1..(Len(cl) \div 2) |->
                          16 * HexVal(cl[2 * i - 1]) + HexVal(cl[2 * i])]]

\* input_text.as_bytes().to_vec()
as_bytes(input) == [i \in 1..Len(input) |-> Ord(input[i])]

\* what the user may have typed into input_text when Send is clicked
Texts == {<<"4", "1">>, <<"4", " ", "F">>, <<"4", "1", "F">>}

(***************************************************************************)
(* SerialTool: the foreground.  Every handler runs inside ui(), which      *)
(* first drains the channel (app.rs 62-79) and then serves the one widget  *)
(* the user clicked.                                                       *)
(***************************************************************************)
Entry(tag, fmt, bytes) == [tag |-> tag, fmt |-> fmt, data |-> bytes]

\* a drain that logs the pending frames last first
RxLogsReversed ==
  IF rx = None THEN <<>>
  ELSE [i \in 1..Len(queue) |->
          Entry("RX", send_format, queue[Len(queue) + 1 - i])]

\* the entries ui() pushes for the frames pending on self.rx, in order
RxLogs ==
  IF rx = None THEN <<>>
  ELSE [i \in 1..Len(queue) |-> Entry("RX", send_format, queue[i])]

Drained == logs \o RxLogs

\* entries pushed by the click handlers so far
Pushed == Cardinality({i \in 1..Len(logs) : logs[i].tag # "RX"})

Idle == fg.pc = "ui"

tvars == <<dev, lock, tpc, frame, nread, elapsed, wire, osbuf, sched, sent,
           why>>

\* ui() with no widget clicked
Ui ==
  /\ Idle
  /\ logs' = Drained
  /\ queue' = <<>>
  /\ UNCHANGED <<selected_port, port, rx, read_running, status, send_format,
                 fg, tvars, cancelled, written>>

\* the port combo box (app.rs 139-149)
SelectPort(p) ==
  /\ Idle
  /\ selected_port' = p
  /\ logs' = Drained
  /\ queue' = <<>>
  /\ UNCHANGED <<port, rx, read_running, status, send_format, fg, tvars,
                 cancelled, written>>

\* "Refresh Ports" (app.rs 126-129)
RefreshPorts ==
  /\ Idle
  /\ selected_port' = Placeholder
  /\ logs' = Drained
  /\ queue' = <<>>
  /\ UNCHANGED <<port, rx, read_running, status, send_format, fg, tvars,
                 cancelled, written>>

\* the HEX / ASCII radio buttons (app.rs 205-206)
SetSendFormat(f) ==
  /\ Idle
  /\ send_format' = f
  /\ logs' = Drained
  /\ queue' = <<>>
  /\ UNCHANGED <<selected_port, port, rx, read_running, status, fg, tvars,
                 cancelled, written>>

\* connect(): no port selected
ConnectNoPort ==
  /\ Idle
  /\ selected_port = ""
  /\ status' = <<"No port selected", "">>
  /\ logs' = Drained
  /\ queue' = <<>>
  /\ UNCHANGED <<selected_port, port, rx, read_running, send_format, fg,
                 tvars, cancelled, written>>

\* a connect() that starts the reader thread's flag before open() fails
ConnectFailedStoresFlag ==
  /\ Idle
  /\ selected_port # ""
  /\ status' = <<"Connect failed", selected_port>>
  /\ read_running' = TRUE
  /\ logs' = Drained
  /\ queue' = <<>>
  /\ UNCHANGED <<selected_port, port, rx, send_format, fg, tvars, cancelled,
                 written>>

\* connect(): open() fails
ConnectFailed ==
  /\ Idle
  /\ selected_port # ""
  /\ status' = <<"Connect failed", selected_port>>
  /\ logs' = Drained
  /\ queue' = <<>>
  /\ UNCHANGED <<selected_port, port, rx, read_running, send_format, fg,
                 tvars, cancelled, written>>

\* the thread start_read_thread spawns for connection t
Spawn(t, w) ==
  /\ read_running' = TRUE
  /\ tpc' = [tpc EXCEPT ![t] = "check"]
  /\ dev' = [dev EXCEPT ![t] = selected_port]
  /\ wire' = [wire EXCEPT ![t] = w]
  /\ sched' = [sched EXCEPT ![t] = w]

\* connect(): open() succeeds on a device that is not open already
ConnectOk(t, w) ==
  /\ Idle
  /\ Pushed < MaxLogs
  /\ selected_port \in PortNames
  /\ ~Busy(selected_port)
  /\ tpc[t] = "none"
  /\ \A u \in Threads : u < t => tpc[u] # "none"
  /\ Spawn(t, w)
  /\ port' = t
  /\ rx' = t
  /\ queue' = <<>>
  /\ status' = <<"Connected", selected_port>>
  /\ logs' = Append(Drained, Entry("Connected", "", <<>>))
  /\ UNCHANGED <<selected_port, send_format, fg, lock, frame, nread, elapsed,
                 osbuf, sent, why, cancelled, written>>

\* disconnect()
Disconnect ==
  /\ Idle
  /\ Pushed < MaxLogs
  /\ read_running' = FALSE
  /\ port' = None
  /\ rx' = None
  /\ queue' = <<>>
  /\ status' = <<"Disconnected", "">>
  /\ logs' = Append(Drained, Entry("Disconnected", "", <<>>))
  /\ cancelled' = [t \in Threads |-> cancelled[t] \/ Alive(t)]
  /\ UNCHANGED <<selected_port, send_format, fg, tvars, written>>

\* the "Send" button (app.rs 216-218): ui() has drained the channel and the
\* foreground enters send() with the text of input_text
SendClick(input) ==
  /\ Idle
  /\ Pushed < MaxLogs
  /\ fg' = [pc |-> "send", bytes |-> <<>>, input |-> input]
  /\ logs' = Drained
  /\ queue' = <<>>
  /\ UNCHANGED <<selected_port, port, rx, read_running, status, send_format,
                 tvars, cancelled, written>>

\* send(): not connected
SendNotConnected ==
  /\ fg.pc = "send"
  /\ port = None
  /\ fg' = [pc |-> "ui", bytes |-> <<>>, input |-> <<>>]
  /\ logs' = Append(logs, Entry("TX -- Not connected", "", <<>>))
  /\ UNCHANGED <<selected_port, port, rx, read_running, status, send_format,
                 queue, tvars, cancelled, written>>

\* send(): Hex mode and parse_hex_string fails
SendHexError ==
  /\ fg.pc = "send"
  /\ port # None
  /\ send_format = "Hex"
  /\ ~parse_hex_string(fg.input).ok
  /\ fg' = [pc |-> "ui", bytes |-> <<>>, input |-> <<>>]
  /\ logs' = Append(logs, Entry("TX -- HEX error", "", <<>>))
  /\ UNCHANGED <<selected_port, port, rx, read_running, status, send_format,
                 queue, tvars, cancelled, written>>

\* the bytes send() writes
SendBytes(input) ==
  IF send_format = "Hex" THEN parse_hex_string(input).bytes
  ELSE as_bytes(input)

\* send(): the bytes are ready and the foreground calls port.lock()
SendLock ==
  /\ fg.pc = "send"
  /\ port # None
  /\ send_format = "Hex" => parse_hex_string(fg.input).ok
  /\ fg' = [pc |-> "lock", bytes |-> SendBytes(fg.input), input |-> <<>>]
  /\ UNCHANGED <<selected_port, port, rx, read_running, status, logs,
                 send_format, queue, tvars, cancelled, written>>

\* send(): the lock is taken, write_all runs, the lock is released
SendWrite(ok) ==
  /\ fg.pc \in {"lock", "turn"}
  /\ lock[port] = "free"
  /\ fg' = [pc |-> "ui", bytes |-> <<>>, input |-> <<>>]
  /\ IF ok
       THEN /\ written' = written + 1
            /\ logs' = Append(logs, Entry("TX", send_format, fg.bytes))
       ELSE /\ written' = written
            /\ logs' = Append(logs, Entry("TX -- Send failed", "", <<>>))
  /\ UNCHANGED <<selected_port, port, rx, read_running, status, send_format,
                 queue, tvars, cancelled>>

(***************************************************************************)
(* The reader thread of connection t (start_read_thread, app.rs 321-362).  *)
(***************************************************************************)
fgvars == <<selected_port, port, rx, read_running, status, logs, send_format,
            fg, cancelled, written>>

\* an idle branch that does not wait for the threshold
TimeoutFramesEager(f, e) == IF f # <<>> THEN <<f>> ELSE <<>>

\* an idle branch that emits the first byte of the buffer only
TimeoutFramesTruncated(f, e) ==
  IF f # <<>> /\ e >= FrameTimeout THEN <<Take(f, 1)>> ELSE <<>>

\* the frames the idle-timeout branch hands to tx.send (app.rs 350-353)
TimeoutFrames(f, e) ==
  IF f # <<>> /\ e >= FrameTimeout THEN <<f>> ELSE <<>>

\* mutant of FlushFrames: the residual data is not reissued
FlushFramesNone(f) == <<>>

\* the frames the residual flush hands to tx.send (app.rs 359-361)
FlushFrames(f) == IF f # <<>> THEN <<f>> ELSE <<>>

\* tx.send(..) by thread t: the frames reach the queue while the tool still
\* holds the Receiver, and are dropped with an ignored Err otherwise
TxSend(t, fs, by) ==
  /\ sent' = [sent EXCEPT ![t] =
                @ \o [i \in 1..Len(fs) |-> [bytes |-> fs[i], by |-> by]]]
  /\ queue' = IF rx = t THEN queue \o fs ELSE queue

\* while running.load(Ordering::SeqCst)
ThCheck(t) ==
  /\ tpc[t] = "check"
  /\ IF read_running
       THEN /\ tpc' = [tpc EXCEPT ![t] = "lock"]
            /\ why' = why
       ELSE /\ tpc' = [tpc EXCEPT ![t] = "flush"]
            /\ why' = [why EXCEPT ![t] = "cancel"]
  /\ UNCHANGED <<fgvars, queue, dev, lock, frame, nread, elapsed, wire, osbuf,
                 sched, sent>>

\* port.lock()
ThLock(t) ==
  /\ tpc[t] = "lock"
  /\ lock[t] = "free"
  /\ lock' = [lock EXCEPT ![t] = "reader"]
  /\ tpc' = [tpc EXCEPT ![t] = "reading"]
  /\ UNCHANGED <<fgvars, queue, dev, frame, nread, elapsed, wire, osbuf,
                 sched, sent, why>>

\* the foreground after thread t dropped its guard: a send() that was
\* blocked in port.lock() on this port has seen one read call end
Unlocked(t) ==
  IF fg.pc = "lock" /\ port = t THEN [fg EXCEPT !.pc = "turn"] ELSE fg

\* port.read returns: bytes b after d ms, the OS buffer left as rest and the
\* wire as w.  The guard is dropped at the end of the block (app.rs 341).
ReadReturns(t, b, d, rest, w) ==
  /\ nread' = [nread EXCEPT ![t] = b]
  /\ elapsed' = [elapsed EXCEPT ![t] = Sat(@ + d)]
  /\ osbuf' = [osbuf EXCEPT ![t] = rest]
  /\ wire' = [wire EXCEPT ![t] = w]
  /\ lock' = [lock EXCEPT ![t] = "free"]
  /\ tpc' = [tpc EXCEPT ![t] = "proc"]
  /\ fg' = Unlocked(t)
  /\ UNCHANGED <<selected_port, port, rx, read_running, status, logs,
                 send_format, cancelled, written, queue, dev, frame, sched,
                 sent, why>>

\* port.read: bytes are waiting in the OS buffer
ReadData(t) ==
  /\ tpc[t] = "reading"
  /\ osbuf[t] # <<>>
  /\ ReadReturns(t, Take(osbuf[t], BufLen), 0, Drop(osbuf[t], BufLen),
                 wire[t])

\* port.read: the next group arrives before the read timeout
ReadWait(t) ==
  /\ tpc[t] = "reading"
  /\ osbuf[t] = <<>>
  /\ wire[t] # <<>>
  /\ Head(wire[t]).gap <= ReadTimeout
  /\ LET d == Head(wire[t]).gap
         r == Pass(wire[t], d)
     IN ReadReturns(t, Take(r.arrived, BufLen), d, Drop(r.arrived, BufLen),
                    r.wire)

\* port.read: Err(TimedOut) after the read timeout, mapped to n = 0
ReadTimedOut(t) ==
  /\ tpc[t] = "reading"
  /\ osbuf[t] = <<>>
  /\ IF wire[t] = <<>> THEN TRUE ELSE Head(wire[t]).gap >= ReadTimeout
  /\ LET r == Pass(wire[t], ReadTimeout)
     IN ReadReturns(t, <<>>, ReadTimeout, r.arrived, r.wire)

\* port.read: Ok(0) at once
ReadZero(t) ==
  /\ tpc[t] = "reading"
  /\ osbuf[t] = <<>>
  /\ ReadReturns(t, <<>>, 0, <<>>, wire[t])

\* port.read: any other error, break
ReadFatal(t) ==
  /\ tpc[t] = "reading"
  /\ lock' = [lock EXCEPT ![t] = "free"]
  /\ tpc' = [tpc EXCEPT ![t] = "flush"]
  /\ why' = [why EXCEPT ![t] = "error"]
  /\ fg' = Unlocked(t)
  /\ UNCHANGED <<selected_port, port, rx, read_running, status, logs,
                 send_format, cancelled, written, queue, dev, frame, nread,
                 elapsed, wire, osbuf, sched, sent>>

\* a thread that sends its buffer after every read that returned bytes
ThAppendEmits(t) ==
  /\ tpc[t] = "proc"
  /\ Len(nread[t]) > 0
  /\ TxSend(t, <<frame[t] \o nread[t]>>, "idle")
  /\ frame' = [frame EXCEPT ![t] = <<>>]
  /\ elapsed' = [elapsed EXCEPT ![t] = 0]
  /\ tpc' = [tpc EXCEPT ![t] = "check"]
  /\ UNCHANGED <<fgvars, dev, lock, nread, wire, osbuf, sched, why>>

\* app.rs 343-347
ThAppend(t) ==
  /\ tpc[t] = "proc"
  /\ Len(nread[t]) > 0
  /\ frame' = [frame EXCEPT ![t] = @ \o nread[t]]
  /\ elapsed' = [elapsed EXCEPT ![t] = 0]
  /\ tpc' = [tpc EXCEPT ![t] = "check"]
  /\ UNCHANGED <<fgvars, queue, dev, lock, nread, wire, osbuf, sched, sent,
                 why>>

\* app.rs 349-353
ThTimeout(t) ==
  /\ tpc[t] = "proc"
  /\ Len(nread[t]) = 0
  /\ LET fs == TimeoutFrames(frame[t], elapsed[t])
     IN /\ TxSend(t, fs, "idle")
        /\ frame' = [frame EXCEPT ![t] = IF fs # <<>> THEN <<>> ELSE @]
  /\ tpc' = [tpc EXCEPT ![t] = "sleep"]
  /\ UNCHANGED <<fgvars, dev, lock, nread, elapsed, wire, osbuf, sched, why>>

\* thread::sleep(Duration::from_millis(2))
ThSleep(t) ==
  /\ tpc[t] = "sleep"
  /\ LET r == Pass(wire[t], SleepMs)
     IN /\ wire' = [wire EXCEPT ![t] = r.wire]
        /\ osbuf' = [osbuf EXCEPT ![t] = @ \o r.arrived]
  /\ elapsed' = [elapsed EXCEPT ![t] = Sat(@ + SleepMs)]
  /\ tpc' = [tpc EXCEPT ![t] = "check"]
  /\ UNCHANGED <<fgvars, queue, dev, lock, frame, nread, sched, sent, why>>

\* app.rs 358-361, then the thread ends and its locals are dropped
ThFlush(t) ==
  /\ tpc[t] = "flush"
  /\ TxSend(t, FlushFrames(frame[t]), "flush")
  /\ frame' = [frame EXCEPT ![t] = <<>>]
  /\ nread' = [nread EXCEPT ![t] = <<>>]
  /\ elapsed' = [elapsed EXCEPT ![t] = 0]
  /\ tpc' = [tpc EXCEPT ![t] = "done"]
  /\ UNCHANGED <<fgvars, dev, lock, wire, osbuf, sched, why>>

(***************************************************************************)
(* SerialTool::new and the serial specification.                           *)
(***************************************************************************)
SerialInit ==
  /\ selected_port = ""
  /\ port = None
  /\ rx = None
  /\ read_running = FALSE
  /\ status = <<"Disconnected", "">>
  /\ logs = <<>>
  /\ send_format = "Hex"
  /\ fg = [pc |-> "ui", bytes |-> <<>>, input |-> <<>>]
  /\ queue = <<>>
  /\ dev = [t \in Threads |-> ""]
  /\ lock = [t \in Threads |-> "free"]
  /\ tpc = [t \in Threads |-> "none"]
  /\ frame = [t \in Threads |-> <<>>]
  /\ nread = [t \in Threads |-> <<>>]
  /\ elapsed = [t \in Threads |-> 0]
  /\ wire = [t \in Threads |-> <<>>]
  /\ osbuf = [t \in Threads |-> <<>>]
  /\ sched = [t \in Threads |-> <<>>]
  /\ sent = [t \in Threads |-> <<>>]
  /\ why = [t \in Threads |-> ""]
  /\ cancelled = [t \in Threads |-> FALSE]
  /\ written = 0

(***************************************************************************)
(* ModbusTool (src/src/modbus/app.rs).                                     *)
(***************************************************************************)
Tasks == 1..MaxTasks

\* hosts the user may type; "localhost:502" is no SocketAddr
Ips == {"127.0.0.1", "localhost"}

\* a parser that accepts every host
ParsesAnyHost(ip) == TRUE

\* format!("{}:{}", ip, port).parse::<SocketAddr>() succeeds
ParsesAsSocketAddr(ip) == ip = "127.0.0.1"

\* word sequences the device may answer with
Responses == {<<1>>, <<2>>}

\* a task whose sends would succeed as long as the tool holds any receiver
MReceivesAny(t) == mrx # None

\* the receiving half of task t's channel is alive: the tool still holds it
MReceives(t) == mrx = t

\* the least task slot not used yet
FreeTask(t) == kind[t] = "none" /\ \A u \in Tasks : u < t => kind[u] # "none"

\* rt.spawn(async move { .. }) with the tool's parameters captured
MSpawn(t, k) ==
  /\ kind' = [kind EXCEPT ![t] = k]
  /\ mpc' = [mpc EXCEPT ![t] = "parse"]
  /\ req' = [req EXCEPT ![t] = [ip |-> tcp_ip]]
  /\ startedIdle' = [startedIdle EXCEPT ![t] = ~auto_poll /\ mrx = None]

\* ui(), first part: the panels are drawn and no widget is used
MUiNone ==
  /\ mui = "widgets"
  /\ mui' = "drain"
  /\ UNCHANGED <<auto_poll, mrx, data, tcp_ip, mqueue, kind,
                 mpc, req, outcome, stopped, startedIdle, napplied, answers>>

\* ui(), first part: the IP field is edited (app.rs 183)
MUiIp(ip) ==
  /\ mui = "widgets"
  /\ tcp_ip' = ip
  /\ mui' = "drain"
  /\ UNCHANGED <<auto_poll, mrx, data, mqueue, kind, mpc, req,
                 outcome, stopped, startedIdle, napplied, answers>>

\* ui(), first part: the "Auto Poll (1s)" checkbox is toggled (app.rs 337)
MUiToggle ==
  /\ mui = "widgets"
  /\ auto_poll' = ~auto_poll
  /\ mui' = "drain"
  /\ UNCHANGED <<mrx, data, tcp_ip, mqueue, kind, mpc, req,
                 outcome, stopped, startedIdle, napplied, answers>>

\* ui(), first part: "Read Once" is clicked, start_read_once (app.rs 386-410)
MUiReadOnce(t) ==
  /\ mui = "widgets"
  /\ FreeTask(t)
  /\ mrx' = t
  /\ mqueue' = <<>>
  /\ MSpawn(t, "once")
  /\ mui' = "drain"
  /\ UNCHANGED <<auto_poll, data, tcp_ip, outcome, stopped, napplied,
                 answers>>

\* a drain that appends each block to the displayed data
AssignAppended(d, block) == d \o block

\* self.data = data (app.rs 133)
Assign(d, block) == block

\* while let Ok(data) = rx.try_recv() { self.data = data; .. } (app.rs 132-136)
RECURSIVE ApplyBlocks(_, _)
ApplyBlocks(d, q) ==
  IF q = <<>> THEN d ELSE ApplyBlocks(Assign(d, Head(q).words), Tail(q))

\* self.data after the drain: the last block received, if any
MDrainedData ==
  IF mrx = None THEN data ELSE ApplyBlocks(data, mqueue)

\* blocks of task t among those drained
MDrainedFrom(t) ==
  IF mrx = None THEN 0
  ELSE Cardinality({i \in 1..Len(mqueue) : mqueue[i].src = t})

\* a start branch that does not look at self.rx
ShouldStartAlways(ap, r) == ap

\* handle_auto_poll: the condition of the start branch (app.rs 413)
ShouldStart(ap, r) == ap /\ r = None

\* handle_auto_poll: the condition of the stop branch (app.rs 417)
ShouldStop(ap, r) == ~ap /\ r # None

\* ui(), second part: the drain, then handle_auto_poll takes neither branch
MUiDrain ==
  /\ mui = "drain"
  /\ ~ShouldStart(auto_poll, mrx)
  /\ ~ShouldStop(auto_poll, mrx)
  /\ data' = MDrainedData
  /\ napplied' = [t \in Tasks |-> napplied[t] + MDrainedFrom(t)]
  /\ mqueue' = <<>>
  /\ mui' = "widgets"
  /\ UNCHANGED <<auto_poll, mrx, tcp_ip, kind, mpc, req, outcome,
                 stopped, startedIdle, answers>>

\* ui(), second part: the drain, then start_auto_poll (app.rs 423-453)
MUiStart(t) ==
  /\ mui = "drain"
  /\ ShouldStart(auto_poll, mrx)
  /\ FreeTask(t)
  /\ data' = MDrainedData
  /\ napplied' = [u \in Tasks |-> napplied[u] + MDrainedFrom(u)]
  /\ mrx' = t
  /\ mqueue' = <<>>
  /\ MSpawn(t, "poll")
  /\ mui' = "widgets"
  /\ UNCHANGED <<auto_poll, tcp_ip, outcome, stopped, answers>>

\* ui(), second part: the drain, then the stop branch (app.rs 417-420)
MUiStop ==
  /\ mui = "drain"
  /\ ShouldStop(auto_poll, mrx)
  /\ data' = MDrainedData
  /\ napplied' = [t \in Tasks |-> napplied[t] + MDrainedFrom(t)]
  /\ mrx' = None
  /\ mqueue' = <<>>
  /\ stopped' = [t \in Tasks |->
                   stopped[t] \/ (kind[t] = "poll" /\ mpc[t] # "done")]
  /\ mui' = "widgets"
  /\ UNCHANGED <<auto_poll, tcp_ip, kind, mpc, req, outcome,
                 startedIdle, answers>>

\* a task that gives up after its first cycle, whatever its kind
AfterCycleEnds(t) == "done"

\* where a task goes after a cycle that sent its block or failed
AfterCycle(t) == IF kind[t] = "poll" THEN "sleep" ELSE "done"

\* a task that reads the endpoint from the tool at every request
EndpointOfTool(t) == tcp_ip

\* the endpoint of task t's requests: the ip moved into the task at spawn
\* (app.rs 390 and 427, used at 401 and 439)
Endpoint(t) == req[t].ip

\* modbus_read_by_function: the endpoint string does not parse (app.rs 463)
MParseFail(t) ==
  /\ mpc[t] = "parse"
  /\ ~ParsesAsSocketAddr(Endpoint(t))
  /\ outcome' = [outcome EXCEPT ![t] = "failed"]
  /\ mpc' = [mpc EXCEPT ![t] = AfterCycle(t)]
  /\ UNCHANGED <<auto_poll, mrx, data, tcp_ip, mui, mqueue,
                 kind, req, stopped, startedIdle, napplied, answers>>

\* modbus_read_by_function: the endpoint parses, tcp::connect is called
MConnect(t) ==
  /\ mpc[t] = "parse"
  /\ ParsesAsSocketAddr(Endpoint(t))
  /\ mpc' = [mpc EXCEPT ![t] = "io"]
  /\ UNCHANGED <<auto_poll, mrx, data, tcp_ip, mui, mqueue,
                 kind, req, outcome, stopped, startedIdle, napplied, answers>>

\* the connection or the request fails: Err(_) => {} / eprintln!
MIoFail(t) ==
  /\ mpc[t] = "io"
  /\ outcome' = [outcome EXCEPT ![t] = "failed"]
  /\ mpc' = [mpc EXCEPT ![t] = AfterCycle(t)]
  /\ UNCHANGED <<auto_poll, mrx, data, tcp_ip, mui, mqueue,
                 kind, req, stopped, startedIdle, napplied, answers>>

\* the device answers with words w and the task calls tx.send
MIoOk(t, w) ==
  /\ mpc[t] = "io"
  /\ answers < MaxAnswers
  /\ answers' = answers + 1
  /\ IF MReceives(t)
       THEN /\ mqueue' = Append(mqueue, [src |-> t, words |-> w])
            /\ outcome' = [outcome EXCEPT ![t] = "sent"]
            /\ mpc' = [mpc EXCEPT ![t] = AfterCycle(t)]
       ELSE /\ mqueue' = mqueue
            /\ outcome' = [outcome EXCEPT ![t] = "lost"]
            /\ mpc' = [mpc EXCEPT ![t] = "done"]
  /\ UNCHANGED <<auto_poll, mrx, data, tcp_ip, mui, kind, req,
                 stopped, startedIdle, napplied>>

\* tokio::time::sleep(Duration::from_secs(1)) is over
MSleep(t) ==
  /\ mpc[t] = "sleep"
  /\ mpc' = [mpc EXCEPT ![t] = "parse"]
  /\ UNCHANGED <<auto_poll, mrx, data, tcp_ip, mui, mqueue,
                 kind, req, outcome, stopped, startedIdle, napplied, answers>>

\* one step of task t
TaskStep(t) ==
  \/ MParseFail(t)
  \/ MConnect(t)
  \/ MIoFail(t)
  \/ \E w \in Responses : MIoOk(t, w)
  \/ MSleep(t)

\* ModbusTool::new
ModbusInit ==
  /\ auto_poll = FALSE
  /\ mrx = None
  /\ data = <<>>
  /\ tcp_ip = "127.0.0.1"
  /\ mui = "widgets"
  /\ mqueue = <<>>
  /\ kind = [t \in Tasks |-> "none"]
  /\ mpc = [t \in Tasks |-> "none"]
  /\ req = [t \in Tasks |-> [ip |-> ""]]
  /\ outcome = [t \in Tasks |-> ""]
  /\ stopped = [t \in Tasks |-> FALSE]
  /\ startedIdle = [t \in Tasks |-> FALSE]
  /\ napplied = [t \in Tasks |-> 0]
  /\ answers = 0

(***************************************************************************)
(* The register codec: DisplayFormat::format (src/src/modbus/display.rs)   *)
(* and ModbusTool::format_value (src/src/modbus/app.rs).  Strings are      *)
(* built character by character; a u32 is kept as its two 16-bit halves,   *)
(* so that every intermediate value fits the integers of the checker.      *)
(***************************************************************************)
Formats == {"Signed", "Unsigned", "Hex", "Binary", "Long", "LongInverse",
            "Float", "FloatInverse", "Double", "DoubleInverse"}

\* DisplayFormat::register_count
register_count(fmt) ==
  CASE fmt \in {"Signed", "Unsigned", "Hex", "Binary"} -> 1
    [] fmt \in {"Long", "LongInverse", "Float", "FloatInverse"} -> 2
    [] fmt \in {"Double", "DoubleInverse"} -> 4

Digit(d) == <<"0", "1", "2", "3", "4", "5", "6", "7", "8", "9",
              "A", "B", "C", "D", "E", "F">>[d + 1]

\* the decimal text of a natural number
RECURSIVE Dec(_)
Dec(n) == IF n < 10 THEN Digit(n) ELSE Dec(n \div 10) \o Digit(n % 10)

\* the decimal text of m + 1, for a natural number m
RECURSIVE DecSucc(_)
DecSucc(m) ==
  IF m % 10 = 9 THEN DecSucc(m \div 10) \o "0"
  ELSE (IF m < 10 THEN "" ELSE Dec(m \div 10)) \o Digit((m % 10) + 1)

\* i16::to_string, i32::to_string, u16::to_string, usize::to_string
to_string(n) == IF n < 0 THEN "-" \o DecSucc(-(n + 1)) ELSE Dec(n)

\* format!("0x{:04X}", v)
Hex04(v) ==
  "0x" \o Digit(v \div 4096) \o Digit((v \div 256) % 16)
       \o Digit((v \div 16) % 16) \o Digit(v % 16)

\* format!("{:016b}", v): the low n bits of v, most significant first
RECURSIVE Bits(_, _)
Bits(v, n) == IF n = 0 THEN "" ELSE Bits(v \div 2, n - 1) \o Digit(v % 2)

\* v as i16
as_i16(v) == IF v >= 32768 THEN v - 65536 ELSE v

\* ((a as u32) << 16) | b as u32, as its high and low halves
ShlOr(a, b) == [hi |-> a % 65536, lo |-> b % 65536]

\* v as i32
as_i32(v) ==
  IF v.hi >= 32768 THEN (v.hi - 65536) * 65536 + v.lo
  ELSE v.hi * 65536 + v.lo

\* f32::from_bits(bits).to_string(): the text of the float with these bits,
\* written as the bits themselves
F32Text(v) == "f32:" \o Hex04(v.hi) \o Hex04(v.lo)

\* f64::from_bits(bits).to_string(), the four words from the highest down
F64Text(a, b, c, d) ==
  "f64:" \o Hex04(a) \o Hex04(b) \o Hex04(c) \o Hex04(d)

\* a LongInverse branch that does not swap the words
LongInverseUnswapped(raw) == to_string(as_i32(ShlOr(raw[1], raw[2])))

\* the Long branch of both decoders (display.rs 77-78, app.rs 508-509)
Long(raw) == to_string(as_i32(ShlOr(raw[1], raw[2])))

\* the LongInverse branch of both decoders (display.rs 85-86, app.rs 516-517)
LongInverse(raw) == to_string(as_i32(ShlOr(raw[2], raw[1])))

\* the branches the two decoders share: two and four word formats
Wide(fmt, raw) ==
  CASE fmt = "Long" ->
         IF Len(raw) >= 2 THEN Long(raw) ELSE "-"
    [] fmt = "LongInverse" ->
         IF Len(raw) >= 2 THEN LongInverse(raw) ELSE "-"
    [] fmt = "Float" ->
         IF Len(raw) >= 2 THEN F32Text(ShlOr(raw[1], raw[2])) ELSE "-"
    [] fmt = "FloatInverse" ->
         IF Len(raw) >= 2 THEN F32Text(ShlOr(raw[2], raw[1])) ELSE "-"
    [] fmt = "Double" ->
         IF Len(raw) >= 4 THEN F64Text(raw[1], raw[2], raw[3], raw[4])
         ELSE "-"
    [] fmt = "DoubleInverse" ->
         IF Len(raw) >= 4 THEN F64Text(raw[4], raw[3], raw[2], raw[1])
         ELSE "-"

\* DisplayFormat::format (display.rs 60-130): raw.get(0).map(..)
\* .unwrap_or("-") for the one-word formats
format(fmt, raw) ==
  CASE fmt = "Signed" ->
         IF Len(raw) >= 1 THEN to_string(as_i16(raw[1])) ELSE "-"
    [] fmt = "Unsigned" ->
         IF Len(raw) >= 1 THEN to_string(raw[1]) ELSE "-"
    [] fmt = "Hex" ->
         IF Len(raw) >= 1 THEN Hex04(raw[1]) ELSE "-"
    [] fmt = "Binary" ->
         IF Len(raw) >= 1 THEN Bits(raw[1], 16) ELSE "-"
    [] OTHER -> Wide(fmt, raw)

\* raw.get(0).copied().unwrap_or(0)
GetOr0(raw, i) == IF i < Len(raw) THEN raw[i + 1] ELSE 0

\* ModbusTool::format_value (app.rs 493-557)
format_value(raw, fmt) ==
  CASE fmt = "Signed" -> to_string(as_i16(GetOr0(raw, 0)))
    [] fmt = "Unsigned" -> to_string(GetOr0(raw, 0))
    [] fmt = "Hex" -> Hex04(GetOr0(raw, 0))
    [] fmt = "Binary" -> Bits(GetOr0(raw, 0), 16)
    [] OTHER -> Wide(fmt, raw)

\* a widening that maps true to 0 and false to 1
BoolAsU16Inverted(b) == IF b THEN 0 ELSE 1

\* b as u16, for a bool (app.rs 471, 476)
BoolAsU16(b) == IF b THEN 1 ELSE 0

Functions == {"ReadCoils", "ReadDiscrete", "ReadHolding", "ReadInput"}

\* the match of modbus_read_by_function (app.rs 468-488): the device's
\* response turned into the Vec<u16> the function returns
ResponseToData(function, response) ==
  IF function \in {"ReadCoils", "ReadDiscrete"}
    THEN [i \in 1..Len(response) |-> BoolAsU16(response[i])]
    ELSE [i \in 1..Len(response) |-> response[i] % 65536]

\* what `self.address + i` does on u16 overflow: a build with overflow
\* checks (the dev profile) panics, one without (the release profile) wraps
Builds == {"checked", "wrapping"}

\* the largest u16
U16Max == 65535

\* the header columns drawn before `self.address + i` (app.rs 351)
\* overflows: all of them when it does not
ColsBeforeOverflow(t) ==
  IF t.address + (t.quantity - 1) <= U16Max THEN t.quantity
  ELSE (U16Max - t.address) + 1

\* ModbusTool::ui_table (app.rs 341-370) for a tool with fields t: whether
\* drawing panicked, the header labels, and per row its label and the texts
\* of its cells
ui_table(t, build) ==
  IF build = "checked" /\ ColsBeforeOverflow(t) < t.quantity
    THEN [panicked |-> TRUE,
          header |-> [col \in 1..ColsBeforeOverflow(t) |->
                        to_string(t.address + (col - 1))],
          rows |-> <<>>]
    ELSE
  [panicked |-> FALSE,
   header |-> [col \in 1..t.quantity |->
                 to_string((t.address + (col - 1)) % (U16Max + 1))],
   rows |-> [row \in 1..t.view_rows |->
               [label |-> to_string(row - 1),
                cells |-> [col \in 1..t.quantity |->
                  LET idx == (row - 1) * t.quantity + (col - 1)
                      v == GetOr0(t.data, idx)
                  IN format_value(<<v>>, t.display_format)]]]]

\* words the decoders are applied to
CodecWords == {0, 1, 32767, 32768, 61072, 65534, 65535}

\* word sequences handed to a decoder
Raws == UNION {[1..n -> CodecWords] : n \in 0..MaxRaw}

\* responses of a device to the read of function f
ResponsesOf(f) ==
  IF f \in {"ReadCoils", "ReadDiscrete"}
    THEN UNION {[1..n -> BOOLEAN] : n \in 0..MaxResp}
    ELSE UNION {[1..n -> {0, 7, 65535}] : n \in 0..MaxResp}

\* the blocks a table is drawn from: the words 1..q, and the two words of
\* -70000
TableBlocks == {[i \in 1..q |-> i] : q \in 1..MaxQty} \cup {<<65534, 61072>>}

\* the rows the View panel offers (app.rs 278-280)
ViewRows == {10, 20, 50}

\* a decoder and its arguments
DecodeCalls ==
  {[op |-> "decode", fn |-> "none", fmt |-> f, raw |-> r] :
     f \in Formats, r \in Raws}

\* a function code and the device's response to it
ReadCalls ==
  UNION {{[op |-> "read", fn |-> "none", function |-> f, response |-> r] :
            r \in ResponsesOf(f)} : f \in Functions}

\* values of the Address field (a u16 DragValue, app.rs 254-255): low ones
\* and one near the top of the range
TableAddresses == {0, 100, 65534}

\* a tool that displays a block received for a request of start address
\* req_address; address and quantity are the fields as they are now
TableCalls ==
  {[op |-> "table", fn |-> "none", data |-> b, req_address |-> ra,
    address |-> a, quantity |-> q, view_rows |-> vr, display_format |-> f] :
     b \in TableBlocks, ra \in {0, 100}, a \in TableAddresses,
     q \in 1..MaxQty,
     vr \in ViewRows, f \in Formats}

\* DisplayFormat::format is applied
CallFormat ==
  /\ call.op = "decode"
  /\ call.fn = "none"
  /\ call' = [call EXCEPT !.fn = "format"]
  /\ ret' = format(call.fmt, call.raw)

\* ModbusTool::format_value is applied
CallFormatValue ==
  /\ call.op = "decode"
  /\ call.fn = "none"
  /\ call' = [call EXCEPT !.fn = "format_value"]
  /\ ret' = format_value(call.raw, call.fmt)

\* modbus_read_by_function gets its response
CallReadByFunction ==
  /\ call.op = "read"
  /\ call.fn = "none"
  /\ call' = [call EXCEPT !.fn = "modbus_read_by_function"]
  /\ ret' = ResponseToData(call.function, call.response)

\* ui_table draws the table
CallUiTable ==
  /\ call.op = "table"
  /\ call.fn = "none"
  /\ call' = [call EXCEPT !.fn = "ui_table"]
  /\ \E build \in Builds : ret' = ui_table(call, build)

(***************************************************************************)
(* The specifications.  The two tools share no state: each specification   *)
(* runs one of them from the state after construction and leaves the       *)
(* other untouched.                                                        *)
(***************************************************************************)
\* no pure function is being applied
NoCall ==
  /\ call = [op |-> "none", fn |-> "none"]
  /\ ret = ""

Init == SerialInit /\ ModbusInit /\ NoCall

\* one step of the reader thread of connection t
ThStep(t) ==
  \/ ThCheck(t)
  \/ ThLock(t)
  \/ ReadData(t)
  \/ ReadWait(t)
  \/ ReadTimedOut(t)
  \/ ReadFatal(t)
  \/ ThAppend(t)
  \/ ThTimeout(t)
  \/ ThSleep(t)
  \/ ThFlush(t)

\* SerialSpec: the life cycle of up to MaxThreads connections (ports chosen,
\* connect, disconnect, ui), each device sending at most one group of bytes
\* and never answering Ok(0)
SerialNext ==
  \/ Ui /\ UNCHANGED <<mvars, cvars>>
  \/ \E p \in PortNames : SelectPort(p) /\ UNCHANGED <<mvars, cvars>>
  \/ RefreshPorts /\ UNCHANGED <<mvars, cvars>>
  \/ ConnectNoPort /\ UNCHANGED <<mvars, cvars>>
  \/ ConnectFailed /\ UNCHANGED <<mvars, cvars>>
  \/ \E t \in Threads : \E w \in Bursts(t) : ConnectOk(t, w) /\ UNCHANGED <<mvars, cvars>>
  \/ Disconnect /\ UNCHANGED <<mvars, cvars>>
  \/ \E t \in Threads : ThStep(t) /\ UNCHANGED <<mvars, cvars>>

SerialSpec == Init /\ [][SerialNext]_vars

\* SendSpec: one connection and the send() handler beside it
SendNext ==
  \/ Ui /\ UNCHANGED <<mvars, cvars>>
  \/ \E p \in PortNames : SelectPort(p) /\ UNCHANGED <<mvars, cvars>>
  \/ \E f \in {"Hex", "Ascii"} : SetSendFormat(f) /\ UNCHANGED <<mvars, cvars>>
  \/ \E w \in Bursts(1) : ConnectOk(1, w) /\ UNCHANGED <<mvars, cvars>>
  \/ Disconnect /\ UNCHANGED <<mvars, cvars>>
  \/ \E input \in Texts : SendClick(input) /\ UNCHANGED <<mvars, cvars>>
  \/ SendNotConnected /\ UNCHANGED <<mvars, cvars>>
  \/ SendHexError /\ UNCHANGED <<mvars, cvars>>
  \/ SendLock /\ UNCHANGED <<mvars, cvars>>
  \/ \E ok \in BOOLEAN : SendWrite(ok) /\ UNCHANGED <<mvars, cvars>>
  \/ ThStep(1) /\ UNCHANGED <<mvars, cvars>>

SendSpec == Init /\ [][SendNext]_vars

\* ReaderSpec: one connection, whose device sends any schedule of groups;
\* the foreground connects, draws ui() and disconnects
ReaderNext ==
  \/ Ui /\ UNCHANGED <<mvars, cvars>>
  \/ \E p \in PortNames : SelectPort(p) /\ UNCHANGED <<mvars, cvars>>
  \/ \E w \in Schedules(1) : ConnectOk(1, w) /\ UNCHANGED <<mvars, cvars>>
  \/ Disconnect /\ UNCHANGED <<mvars, cvars>>
  \/ ThStep(1) /\ UNCHANGED <<mvars, cvars>>
  \/ ReadZero(1) /\ UNCHANGED <<mvars, cvars>>

ReaderSpec == Init /\ [][ReaderNext]_vars

\* the reader thread keeps being scheduled and the GUI keeps calling ui();
\* nothing obliges the user to click
ReaderFairSpec ==
  /\ ReaderSpec
  /\ WF_vars((ThStep(1) \/ ReadZero(1)) /\ UNCHANGED <<mvars, cvars>>)
  /\ WF_vars(Ui /\ UNCHANGED <<mvars, cvars>>)

\* StreamSpec: one connection whose every read returns at least one byte:
\* the thread never sees n = 0 and no read fails.  Only a timed-out read
\* leaves bytes in the OS buffer, so every read here is a ReadWait.
StreamNext ==
  \/ Ui /\ UNCHANGED <<mvars, cvars>>
  \/ \E p \in PortNames : SelectPort(p) /\ UNCHANGED <<mvars, cvars>>
  \/ \E w \in Schedules(1) : ConnectOk(1, w) /\ UNCHANGED <<mvars, cvars>>
  \/ Disconnect /\ UNCHANGED <<mvars, cvars>>
  \/ ThCheck(1) /\ UNCHANGED <<mvars, cvars>>
  \/ ThLock(1) /\ UNCHANGED <<mvars, cvars>>
  \/ ReadWait(1) /\ UNCHANGED <<mvars, cvars>>
  \/ ThAppend(1) /\ UNCHANGED <<mvars, cvars>>
  \/ ThFlush(1) /\ UNCHANGED <<mvars, cvars>>

StreamSpec == Init /\ [][StreamNext]_vars

ModbusNext ==
  \/ MUiNone /\ UNCHANGED <<svars, cvars>>
  \/ \E ip \in Ips : MUiIp(ip) /\ UNCHANGED <<svars, cvars>>
  \/ MUiToggle /\ UNCHANGED <<svars, cvars>>
  \/ \E t \in Tasks : MUiReadOnce(t) /\ UNCHANGED <<svars, cvars>>
  \/ MUiDrain /\ UNCHANGED <<svars, cvars>>
  \/ \E t \in Tasks : MUiStart(t) /\ UNCHANGED <<svars, cvars>>
  \/ MUiStop /\ UNCHANGED <<svars, cvars>>
  \/ \E t \in Tasks : TaskStep(t) /\ UNCHANGED <<svars, cvars>>

ModbusSpec == Init /\ [][ModbusNext]_vars

\* the runtime keeps running every task, and ui() runs to its end
ModbusFairSpec ==
  /\ ModbusSpec
  /\ \A t \in Tasks : WF_vars(TaskStep(t) /\ UNCHANGED <<svars, cvars>>)
  /\ WF_vars(/\ MUiDrain \/ MUiStop \/ \E t \in Tasks : MUiStart(t)
             /\ UNCHANGED <<svars, cvars>>)

\* CodecSpec: one pure function of the Modbus side applied to one input
CodecInit ==
  /\ SerialInit
  /\ ModbusInit
  /\ call \in DecodeCalls \cup ReadCalls \cup TableCalls
  /\ ret = ""

CodecNext ==
  \/ CallFormat /\ UNCHANGED <<svars, mvars>>
  \/ CallFormatValue /\ UNCHANGED <<svars, mvars>>
  \/ CallReadByFunction /\ UNCHANGED <<svars, mvars>>
  \/ CallUiTable /\ UNCHANGED <<svars, mvars>>

CodecSpec == CodecInit /\ [][CodecNext]_vars

\* the whole program: both tools side by side
Next ==
  \/ SerialNext
  \/ StreamNext
  \/ SendNext
  \/ ReaderNext
  \/ ModbusNext
  \/ CodecNext

Spec == Init /\ [][Next]_vars

(***************************************************************************)
(* Claims about the serial tool.                                           *)
(***************************************************************************)
\* the byte strings of the groups of a schedule, in order
Groups(w) == [i \in 1..Len(w) |-> w[i].bytes]

\* the byte strings a thread handed to tx.send, in order
Frames(h) == [i \in 1..Len(h) |-> h[i].bytes]

\* every gap that separates two groups of the schedule is at least g
GapsAtLeast(w, g) == \A i \in 2..Len(w) : w[i].gap >= g

\* the thread was cancelled after it had read everything its device sent
ReadAll(t) ==
  /\ tpc[t] = "done"
  /\ why[t] = "cancel"
  /\ wire[t] = <<>>
  /\ osbuf[t] = <<>>

\* C1 (as claimed): when the groups a device sends are separated by silent
\* gaps of at least the idle threshold (30 ms), the reader thread sends
\* exactly one Frame per group, holding that group's bytes.
C1_FramePerGroup ==
  \A t \in Threads :
    ReadAll(t) /\ GapsAtLeast(sched[t], FrameTimeout)
      => Frames(sent[t]) = Groups(sched[t])

\* C6 (as claimed): a reader thread that a disconnect() found alive leaves
\* its loop at its next loop boundary, whatever the foreground did since.
C6_CancelNoticed ==
  [][\A t \in Threads :
       cancelled[t] /\ tpc[t] = "check" /\ tpc'[t] # "check"
         => tpc'[t] = "flush"]_vars

\* C7 (as claimed): at most one reader thread is alive at any moment.
C7_OneReader == Cardinality({t \in Threads : Alive(t)}) <= 1

\* C10: a reader thread that observes cancellation goes straight to the
\* residual flush, which sends the buffer as exactly one final Frame when
\* the buffer is non-empty and sends nothing when it is empty; then the
\* thread ends.
C10_ResidualFlush ==
  [][\A t \in Threads :
       /\ tpc[t] = "check" /\ ~read_running /\ tpc'[t] # "check"
            => tpc'[t] = "flush" /\ frame'[t] = frame[t] /\ sent'[t] = sent[t]
       /\ tpc[t] = "flush" /\ why[t] = "cancel" /\ tpc'[t] # "flush"
            => /\ tpc'[t] = "done"
               /\ sent'[t] = IF frame[t] # <<>>
                               THEN Append(sent[t], [bytes |-> frame[t],
                                                     by |-> "flush"])
                               ELSE sent[t]]_vars

\* C10 witness: a cancelled thread has ended and its last send was the
\* residual flush.
C10_Flushed ==
  \E t \in Threads :
    /\ tpc[t] = "done"
    /\ why[t] = "cancel"
    /\ sent[t] # <<>>
    /\ sent[t][Len(sent[t])].by = "flush"

\* C11 (as claimed): a reader thread that ended on a fatal read error sent
\* no Frame after that error: its residual flush emitted nothing, whatever
\* the accumulation buffer held.
C11_FatalSilent ==
  \A t \in Threads :
    why[t] = "error" =>
      \A i \in 1..Len(sent[t]) : sent[t][i].by # "flush"

\* C12 (as claimed): once the reader thread of the current connection has
\* ended on a fatal read error, the session becomes Idle: the tool drops
\* the port handle and the channel, clears the running flag and stops
\* reporting itself as connected.
C12_FatalGoesIdle ==
  \A t \in Threads :
    (tpc[t] = "done" /\ why[t] = "error" /\ port = t)
      ~> (port = None /\ rx = None /\ ~read_running
            /\ status[1] # "Connected")

\* C13: a step that ends with a connect failure in the status ("No port
\* selected" or "Connect failed") spawns no reader thread and leaves the
\* port handle, the channel and the running flag as they were.
C13_FailedConnectInert ==
  [][status'[1] \in {"No port selected", "Connect failed"}
       => /\ port' = port
          /\ rx' = rx
          /\ read_running' = read_running
          /\ \A t \in Threads : tpc[t] = "none" => tpc'[t] = "none"]_vars

\* C13 witness: open() failed on a tool that was connected, and the
\* connection is still in place.
C13_FailedWhileConnected ==
  /\ status[1] = "Connect failed"
  /\ port # None
  /\ rx = port
  /\ read_running

\* C23: inside the read loop a Frame is sent only after a read of zero
\* bytes, with a non-empty buffer and at least FrameTimeout elapsed since
\* the last byte; it is the whole buffer, which is empty afterwards.  A
\* read that returned bytes appends them, resets the timer and sends
\* nothing.
C23_EmitOnlyWhenIdle ==
  [][\A t \in Threads :
       /\ (tpc[t] # "flush" /\ sent'[t] # sent[t])
            => /\ tpc[t] = "proc"
               /\ nread[t] = <<>>
               /\ frame[t] # <<>>
               /\ elapsed[t] >= FrameTimeout
               /\ sent'[t] = Append(sent[t], [bytes |-> frame[t],
                                               by |-> "idle"])
               /\ frame'[t] = <<>>
       /\ (tpc[t] = "proc" /\ nread[t] # <<>> /\ tpc'[t] # "proc")
            => /\ frame'[t] = frame[t] \o nread[t]
               /\ elapsed'[t] = 0
               /\ sent'[t] = sent[t]]_vars

\* C23 witness: the idle branch has just sent a Frame and the thread is in
\* its 2 ms sleep with an empty buffer.
C23_IdleFrameSent ==
  \E t \in Threads :
    /\ tpc[t] = "sleep"
    /\ frame[t] = <<>>
    /\ sent[t] # <<>>
    /\ sent[t][Len(sent[t])].by = "idle"

\* the concatenation of a sequence of byte strings
RECURSIVE Flatten(_)
Flatten(ss) == IF ss = <<>> THEN <<>> ELSE Head(ss) \o Flatten(Tail(ss))

\* the bytes thread t has read from the port so far, in read order: what
\* its device was to send, less what is still on the wire or in the OS
\* buffer
BytesRead(t) ==
  LET all == Flatten(Groups(sched[t]))
  IN SubSeq(all, 1,
            Len(all) - Len(osbuf[t]) - Len(Flatten(Groups(wire[t]))))

\* bytes a read has returned in buf and the thread is about to append
InBuf(t) == IF tpc[t] = "proc" THEN nread[t] ELSE <<>>

\* C29: the Frames a reader thread has sent so far, followed by its buffer
\* (and the bytes of a read it is about to append), are exactly the bytes
\* it has read, in order; no Frame it sent is empty.
C29_BytesConserved ==
  \A t \in Threads :
    /\ Flatten(Frames(sent[t])) \o frame[t] \o InBuf(t) = BytesRead(t)
    /\ \A i \in 1..Len(sent[t]) : sent[t][i].bytes # <<>>

\* C29 witness: a thread has sent a Frame and holds later bytes in its
\* buffer.
C29_SentAndBuffered ==
  \E t \in Threads : Alive(t) /\ sent[t] # <<>> /\ frame[t] # <<>>

\* the frame was received and logged by the foreground
Logged(b) == \E j \in 1..Len(logs) : logs[j].tag = "RX" /\ logs[j].data = b

\* the frame is pending on the channel the tool receives on
Pending(b) == rx # None /\ \E j \in 1..Len(queue) : queue[j] = b

\* C30 (as claimed): the residual Frame a reader thread sends after a
\* disconnect() cancelled it reaches the consumer: it is pending on the
\* tool's channel or already in the log.
C30_ResidualReachesConsumer ==
  \A t \in Threads :
    tpc[t] = "done" /\ why[t] = "cancel" =>
      \A i \in 1..Len(sent[t]) :
        sent[t][i].by = "flush" =>
          Logged(sent[t][i].bytes) \/ Pending(sent[t][i].bytes)

\* C27: a step that empties a non-empty channel appends to the log one RX
\* entry per pending Frame, in arrival order, right after the entries the
\* log had; no step removes or changes a log entry.
C27_DrainFifo ==
  [][/\ Len(logs') >= Len(logs)
     /\ SubSeq(logs', 1, Len(logs)) = logs
     /\ (queue # <<>> /\ queue' = <<>>)
          => /\ Len(logs') >= Len(logs) + Len(queue)
             /\ \A i \in 1..Len(queue) :
                  logs'[Len(logs) + i] =
                    Entry("RX", send_format, queue[i])]_vars

\* C27 witness: the log holds two RX entries in a row, for different Frames.
C27_TwoLogged ==
  \E i \in 1..(Len(logs) - 1) :
    /\ logs[i].tag = "RX"
    /\ logs[i + 1].tag = "RX"
    /\ logs[i].data # logs[i + 1].data

\* s is an initial part of u
IsPrefix(s, u) == Len(s) <= Len(u) /\ SubSeq(u, 1, Len(s)) = s

\* C24: while every read returns at least one byte, the thread sends no
\* Frame and its buffer only grows; the accumulated bytes are sent only by
\* the flush that follows cancellation.
C24_StreamNeverEmits ==
  [][\A t \in Threads :
       /\ sent'[t] # sent[t] => tpc[t] = "flush" /\ why[t] = "cancel"
       /\ tpc[t] # "flush" => IsPrefix(frame[t], frame'[t])]_vars

\* C24 witness: a cancelled thread ended after sending, in its flush, a
\* single Frame that holds the bytes of more than one read.
C24_OneBigFrame ==
  \E t \in Threads :
    /\ tpc[t] = "done"
    /\ why[t] = "cancel"
    /\ Len(sent[t]) = 1
    /\ sent[t][1].by = "flush"
    /\ Len(sent[t][1].bytes) >= 2

\* C25 (as claimed): the reader thread holds the lock only inside a read
\* call, and a send() blocked in port.lock() gets the lock once that read
\* call has ended: the reader does not take the lock again before it.
C25_LockForOneCall ==
  [][/\ \A t \in Threads : lock[t] = "reader" => tpc[t] = "reading"
     /\ fg.pc = "turn" =>
          \A t \in Threads :
            port = t /\ lock[t] = "free" => lock'[t] = "free"]_vars

\* C26 (as claimed): the foreground writes to the serial handle only when no
\* reader thread is alive.
C26_ForegroundNoIo ==
  [][fg.pc \in {"lock", "turn"} /\ fg'.pc = "ui"
       => \A t \in Threads : ~Alive(t)]_vars

\* the hex digits in a text
HexDigitCount(input) ==
  Cardinality({i \in 1..Len(input) : input[i] \in HexDigits})

\* the foreground is in send() with no open port, or in Hex mode with an odd
\* number of hex digits typed
SendRefused ==
  /\ fg.pc = "send"
  /\ \/ port = None
     \/ send_format = "Hex" /\ HexDigitCount(fg.input) % 2 = 1

\* the log entries of a send() that gave up before writing
ErrorTags == {"TX -- Not connected", "TX -- HEX error"}

\* C32: a send() with no open port, or in Hex mode with an odd number of hex
\* digits typed, returns having appended exactly one error entry to the log;
\* it writes no byte and leaves the port handle, the channel, the shared
\* flag and every reader thread as they were.
C32_RefusedSendInert ==
  [][SendRefused /\ fg' # fg =>
       /\ fg'.pc = "ui"
       /\ \E tag \in ErrorTags : logs' = Append(logs, Entry(tag, "", <<>>))
       /\ written' = written
       /\ port' = port
       /\ rx' = rx
       /\ queue' = queue
       /\ read_running' = read_running
       /\ tpc' = tpc
       /\ lock' = lock]_vars

\* C32 witness: a send() without a port and a send() of an odd number of hex
\* digits on an open port have both returned, and nothing was written.
C32_BothRefused ==
  /\ fg.pc = "ui"
  /\ written = 0
  /\ \E i \in 1..Len(logs) : logs[i].tag = "TX -- Not connected"
  /\ \E i \in 1..Len(logs) : logs[i].tag = "TX -- HEX error"

(***************************************************************************)
(* Claims about the Modbus tool.                                           *)
(***************************************************************************)
\* the poll loop of task t has been spawned and has not ended
PollAlive(t) == kind[t] = "poll" /\ mpc[t] # "done"

\* a poll session is Running: auto-poll is on and the tool holds the
\* receiver of a poll loop
Running == auto_poll /\ mrx # None /\ kind[mrx] = "poll"

\* C2 (as claimed): read_once does not disturb a running poll session: a
\* poll loop that was never stopped never has a RegisterBlock refused by
\* its channel, so it keeps running and its blocks reach the consumer.
C2_SessionUndisturbed ==
  \A t \in Tasks : kind[t] = "poll" /\ ~stopped[t] => outcome[t] # "lost"

\* C3 (as claimed): a read_once started while no poll session is running,
\* whose request the transport answers, has its RegisterBlock accepted by
\* the channel the consumer drains: the block is never lost.
C3_OnceDelivered ==
  \A t \in Tasks : kind[t] = "once" /\ startedIdle[t] => outcome[t] # "lost"

\* C4: after stop() no RegisterBlock of the stopped poll loop is applied to
\* the consumer's data, and no channel the tool holds afterwards (the one a
\* following start() creates included) carries a block of that loop.
C4_NoStaleBlocks ==
  [][\A t \in Tasks :
       /\ stopped[t] => napplied'[t] = napplied[t]
       /\ stopped'[t] =>
            \A i \in 1..Len(mqueue') : mqueue'[i].src # t]_vars

\* C4 witness: a stopped poll loop finished its in-flight cycle with an
\* answer, its send was refused, and a following start() holds a new channel.
C4_StaleRefused ==
  \E t \in Tasks :
    /\ stopped[t]
    /\ outcome[t] = "lost"
    /\ mrx # None
    /\ mrx # t
    /\ kind[mrx] = "poll"

\* C5 (as claimed): after stop(), the poll loop of the stopped session
\* eventually terminates, whether its requests succeed or fail.
C5_StoppedLoopEnds ==
  \A t \in Tasks : stopped[t] ~> mpc[t] = "done"

\* C8 (as claimed): at every moment at most one poll loop task is alive.
C8_OnePollLoop == Cardinality({t \in Tasks : PollAlive(t)}) <= 1

\* C9: while a poll session is Running, the rest of a UI update (the drain
\* and handle_auto_poll) spawns no task and leaves the channel in place.
C9_StartIsNoOp ==
  [][Running /\ mui = "drain" /\ mui' = "widgets"
       => mrx' = mrx /\ kind' = kind /\ mpc' = mpc]_vars

\* C9 witness: a session is Running and UI updates have already drained
\* blocks of its loop, each of them a start attempt that did nothing.
C9_RunningDrained ==
  /\ Running
  /\ mui = "widgets"
  /\ napplied[mrx] > 0

\* C14: a failed request of a poll loop delivers nothing, leaves the session
\* as it is and sends the loop to the same one-second sleep a success leads
\* to; after the sleep the loop issues its next request.
C14_FailureKeepsPolling ==
  [][\A t \in Tasks :
       /\ (/\ kind[t] = "poll"
           /\ mpc[t] \in {"parse", "io"}
           /\ mpc'[t] \notin {mpc[t], "io"}
           /\ outcome'[t] = "failed")
            => /\ mpc'[t] = "sleep"
               /\ mqueue' = mqueue
               /\ mrx' = mrx
               /\ auto_poll' = auto_poll
       /\ (kind[t] = "poll" /\ mpc[t] = "sleep" /\ mpc'[t] # "sleep")
            => mpc'[t] = "parse"]_vars

\* C14 witness: the loop of the Running session failed a request, slept and
\* is in its next request.
C14_RetriedAfterFailure ==
  \E t \in Tasks :
    /\ Running
    /\ mrx = t
    /\ outcome[t] = "failed"
    /\ mpc[t] = "io"

\* C15: a UI update that drains a non-empty channel leaves as displayed data
\* exactly the last RegisterBlock received, whatever was displayed before
\* and however many blocks were pending.
C15_LastWriteWins ==
  [][(mui = "drain" /\ mui' = "widgets" /\ mrx # None /\ mqueue # <<>>)
       => data' = mqueue[Len(mqueue)].words]_vars

\* C15 witness: the consumer has applied two blocks of the task it listens
\* to, and displays the words of one block only.
C15_TwoApplied ==
  /\ mrx # None
  /\ mui = "widgets"
  /\ napplied[mrx] >= 2
  /\ Len(data) = 1

\* host names: endpoint texts that are no socket address
HostNames == {"localhost"}

\* C21: a task whose endpoint string is no socket address never reaches the
\* connection attempt or any later I/O, and never produces a RegisterBlock:
\* each of its requests fails.
C21_BadEndpointNoIo ==
  \A t \in Tasks :
    kind[t] # "none" /\ req[t].ip \in HostNames =>
      /\ mpc[t] # "io"
      /\ outcome[t] \in {"", "failed"}
      /\ \A i \in 1..Len(mqueue) : mqueue[i].src # t

\* C21 witness: a request for the endpoint "localhost:502" has failed.
C21_BadEndpointFailed ==
  \E t \in Tasks :
    /\ kind[t] # "none"
    /\ req[t].ip \in HostNames
    /\ outcome[t] = "failed"

\* C22 (as claimed): a poll loop whose session was stopped starts no new
\* request: when its sleep is over it finds the cancellation and ends.
C22_NoRequestAfterStop ==
  [][\A t \in Tasks :
       stopped[t] /\ mpc[t] = "sleep" /\ mpc'[t] # "sleep"
         => mpc'[t] = "done"]_vars

\* C28: the parameters of a spawned task never change, each of its requests
\* is made for the endpoint captured at spawn, and editing the endpoint
\* while a session is Running spawns no task and leaves the channel alone.
C28_CapturedParameters ==
  [][/\ \A t \in Tasks :
          /\ kind[t] # "none" => req'[t] = req[t]
          /\ mpc[t] = "parse" /\ mpc'[t] = "io"
               => req[t].ip \notin HostNames
          /\ mpc[t] = "parse" /\ mpc'[t] \notin {"parse", "io"}
               => req[t].ip \in HostNames
     /\ Running /\ tcp_ip' # tcp_ip => kind' = kind /\ mrx' = mrx]_vars

\* C28 witness: the loop of the Running session is connecting to the
\* endpoint it captured while the tool's IP field holds another text.
C28_EditedWhileRunning ==
  /\ Running
  /\ req[mrx].ip # tcp_ip
  /\ mpc[mrx] = "io"
  /\ outcome[mrx] # ""

(***************************************************************************)
(* Claims about the register codec and the table.                          *)
(***************************************************************************)
\* a decoder has been applied
Decoded == call.op = "decode" /\ call.fn \in {"format", "format_value"}

\* the decoder fn applied to raw with format fmt
Decode(fn, raw, fmt) ==
  IF fn = "format" THEN format(fmt, raw) ELSE format_value(raw, fmt)

\* the decimal text of the 32-bit pattern hi*65536 + lo read as a two's
\* complement integer: a pattern with the top bit set is minus the
\* complemented pattern, minus one
TwosComplementText(hi, lo) ==
  IF hi < 32768 THEN Dec(hi * 65536 + lo)
  ELSE "-" \o DecSucc((65535 - hi) * 65536 + (65535 - lo))

\* C16 (as claimed): each of the two decoders returns the sentinel "-" for
\* every word sequence shorter than the word count its format requires.
C16_ShortIsSentinel ==
  Decoded /\ Len(call.raw) < register_count(call.fmt) => ret = "-"

\* C17: for all words hi and lo, each decoder returns for [hi, lo] with Long
\* and for [lo, hi] with LongInverse the same string, the decimal text of
\* the pattern hi*65536 + lo as a two's-complement 32-bit integer.
C17_LongBothOrders ==
  Decoded /\ Len(call.raw) >= 2 =>
    LET a == call.raw[1]
        b == call.raw[2]
    IN /\ call.fmt = "Long" =>
            /\ ret = TwosComplementText(a, b)
            /\ ret = Decode(call.fn, <<b, a>>, "LongInverse")
       /\ call.fmt = "LongInverse" =>
            /\ ret = TwosComplementText(b, a)
            /\ ret = Decode(call.fn, <<b, a>>, "Long")

\* C17 witness: the two words of -70000, low word first, were decoded with
\* LongInverse to "-70000".
C17_Minus70000 ==
  /\ Decoded
  /\ call.fmt = "LongInverse"
  /\ call.raw = <<61072, 65534>>
  /\ ret = "-70000"

\* the (address, value) pairs a drawn table shows, row after row
Entries(tab) ==
  LET q == Len(tab.header)
  IN [k \in 1..(Len(tab.rows) * q) |->
        [addr |-> tab.header[((k - 1) % q) + 1],
         value |-> tab.rows[((k - 1) \div q) + 1].cells[((k - 1) % q) + 1]]]

\* the rows the block of a request with start address a makes with format
\* fmt: one per group of register_count(fmt) words
GroupRows(block, a, fmt) ==
  LET k == register_count(fmt)
  IN [i \in 1..(Len(block) \div k) |->
        [addr |-> to_string(a + (i - 1) * k),
         value |-> format_value(SubSeq(block, (i - 1) * k + 1, i * k), fmt)]]

\* the table was drawn with the address and quantity of the request that
\* produced the displayed block
DrawnAsRequested ==
  /\ call.op = "table"
  /\ call.fn = "ui_table"
  /\ call.address = call.req_address
  /\ call.quantity = Len(call.data)

\* C18 (as claimed): the table starts with one row per group of
\* register_count(format) words of the block, row i holding the decoding
\* of group i and the address start + i * register_count(format).
C18_RowsAreGroups ==
  DrawnAsRequested =>
    LET rows == GroupRows(call.data, call.req_address, call.display_format)
    IN SubSeq(Entries(ret), 1, Len(rows)) = rows

\* C19 (as claimed): with format Signed, a block of q words of a request
\* with start address a is displayed as exactly q rows, with the addresses
\* a .. a+q-1 and the signed decodings of the words in order.
C19_SignedRows ==
  DrawnAsRequested /\ call.display_format = "Signed" =>
    Entries(ret) =
      [i \in 1..Len(call.data) |->
         [addr |-> to_string(call.req_address + (i - 1)),
          value |-> to_string(as_i16(call.data[i]))]]

\* C20: the block modbus_read_by_function returns has the length and order
\* of the response; a coil or discrete input becomes 1 when true and 0 when
\* false, a holding or input register is passed through unchanged.
C20_BlockMirrorsResponse ==
  call.op = "read" /\ call.fn = "modbus_read_by_function" =>
    /\ Len(ret) = Len(call.response)
    /\ \A i \in 1..Len(call.response) :
         IF call.function \in {"ReadCoils", "ReadDiscrete"}
           THEN ret[i] = (IF call.response[i] THEN 1 ELSE 0)
           ELSE ret[i] = call.response[i]

\* C20 witness: the coils [true, false] came back as the block [1, 0].
C20_CoilsWidened ==
  /\ call.op = "read"
  /\ call.fn = "modbus_read_by_function"
  /\ call.function = "ReadCoils"
  /\ call.response = <<TRUE, FALSE>>
  /\ ret = <<1, 0>>

\* C31 (as claimed): for a start address in 0..65535 and a quantity in
\* 1..125, drawing the table computes every header label address + i without
\* u16 overflow: drawing does not panic and label i shows address + i.
C31_LabelsInRange ==
  call.op = "table" /\ call.fn = "ui_table" =>
    /\ ~ret.panicked
    /\ Len(ret.header) = call.quantity
    /\ \A i \in 0..(call.quantity - 1) :
         /\ call.address + i <= U16Max
         /\ ret.header[i + 1] = to_string(call.address + i)

====
